---- MODULE Spec2Model ----
(***************************************************************************)
(* numanpy/root_finding.py: bisect, iterate and newton.                    *)
(*                                                                         *)
(* Numbers are exact rationals <<n, d>> in lowest terms with d > 0.  A     *)
(* call is one activation of a solver; bisect and newton are run twice on  *)
(* the same arguments, once per value of the verbose parameter, and the    *)
(* two activations are indexed by that value.  One action is one pass      *)
(* through a solver's loop body.                                           *)
(***************************************************************************)
EXTENDS Integers, Sequences, FiniteSets, TLC

MaxN == 3
MaxAbs == 3

----------------------------------------------------------------------------
(* Rational arithmetic: the +, -, *, /, abs and < of the source.           *)

IAbs(n) == IF n < 0 THEN -n ELSE n

RECURSIVE GCD(_, _)
GCD(m, n) == IF n = 0 THEN m ELSE GCD(n, m % n)

Norm(n, d) ==
    LET s == IF d < 0 THEN -1 ELSE 1
        g == GCD(IAbs(n), IAbs(d))
    IN  <<(s * n) \div g, (s * d) \div g>>

R(n) == <<n, 1>>

RAdd(p, q) == Norm(p[1] * q[2] + q[1] * p[2], p[2] * q[2])
RSub(p, q) == Norm(p[1] * q[2] - q[1] * p[2], p[2] * q[2])
RMul(p, q) == Norm(p[1] * q[1], p[2] * q[2])
RDiv(p, q) == Norm(p[1] * q[2], p[2] * q[1])
RAbs(p) == <<IAbs(p[1]), p[2]>>
RLt(p, q) == p[1] * q[2] < q[1] * p[2]
RLe(p, q) == p[1] * q[2] <= q[1] * p[2]
RHalf(p) == Norm(p[1], 2 * p[2])
Zero == R(0)

----------------------------------------------------------------------------
(* The callables a caller passes as f and df.                              *)

Apply(fn, p) ==
    CASE fn = "lin"   -> RSub(p, R(1))                      \* x - 1
      [] fn = "sq2"   -> RSub(RMul(p, p), R(2))             \* x^2 - 2
      [] fn = "zig"   -> IF RLt(p, <<-1, 2>>) THEN RAdd(p, R(1))     \* x + 1, x < -1/2
                         ELSE IF RLt(<<1, 2>>, p) THEN RSub(p, R(1)) \* x - 1, x > 1/2
                         ELSE RSub(Zero, p)                          \* -x otherwise
      [] fn = "sq1"   -> RAdd(RMul(p, p), R(1))             \* x^2 + 1
      [] fn = "sq"    -> RMul(p, p)                         \* x^2
      [] fn = "two_x" -> RMul(R(2), p)                      \* 2x
      [] fn = "one"   -> R(1)                               \* 1
      [] fn = "zero"  -> Zero                               \* 0
      [] fn = "half"  -> RHalf(p)                           \* x / 2
      [] fn = "neg"   -> RSub(Zero, p)                      \* -x
      [] fn = "id"    -> p                                  \* x
      [] fn = "inc"   -> RAdd(p, R(1))                      \* x + 1
      [] fn = "ramp"  -> IF RLt(Zero, p) THEN RAdd(p, R(1)) ELSE R(1)   \* 1 + max(x, 0)
      [] fn = "step"  -> IF RLt(Zero, p) THEN R(1) ELSE Zero            \* 1 if x > 0 else 0

BisectFns == {"lin", "sq2", "zig", "sq1"}
IterateFns == {"half", "neg", "id", "inc"}
NewtonFns == {<<"sq", "two_x">>, <<"lin", "one">>, <<"ramp", "step">>,
              <<"lin", "zero">>, <<"sq", "zero">>}

Points == {R(n) : n \in -MaxAbs .. MaxAbs}
EpsSet == {Zero, <<1, 4>>, R(1), R(2)}
Caps == 0 .. MaxN

Args ==
    [solver : {"bisect"}, f : BisectFns, df : {"none"},
     a : Points, b : Points, x0 : {Zero}, eps : EpsSet, N : Caps]
    \cup
    [solver : {"iterate"}, f : IterateFns, df : {"none"},
     a : {Zero}, b : {Zero}, x0 : Points, eps : EpsSet, N : Caps]
    \cup
    {[solver |-> "newton", f |-> fd[1], df |-> fd[2], a |-> Zero, b |-> Zero,
      x0 |-> p, eps |-> e, N |-> n] :
        fd \in NewtonFns, p \in Points, e \in EpsSet, n \in Caps}

(* iterate has no verbose parameter: it is run once. *)
Calls(solver) == IF solver = "iterate" THEN {FALSE} ELSE BOOLEAN

----------------------------------------------------------------------------
VARIABLES
    args,   \* the arguments both activations were called with
    pc,     \* per activation: where it is, or how it ended
    i,      \* the loop variable _ of range(N)
    a, b,   \* bisect's bounds
    cs,     \* bisect's list of midpoints
    x,      \* iterate's current value
    xs,     \* newton's list of iterates (x in the source)
    ret,    \* what the activation returned
    out,    \* what the activation printed
    nf,     \* how many times the activation has called f
    br      \* history: the bounds (a, b) each bisect step started from

vars == <<args, pc, i, a, b, cs, x, xs, ret, out, nf, br>>

NoRet == [kind |-> "none", val |-> <<>>]
Scalar(v) == [kind |-> "scalar", val |-> v]
Trace(s) == [kind |-> "trace", val |-> s]

(* "Converged to {value} after {k} iterations." *)
Message(v, k) == [value |-> v, k |-> k]

Last(s) == s[Len(s)]

Init ==
    /\ args \in Args
    /\ pc = [v \in BOOLEAN |->
                IF v \notin Calls(args.solver) THEN "absent"
                ELSE IF args.solver = "bisect" THEN "entry" ELSE "loop"]
    /\ i = [v \in BOOLEAN |-> 0]
    /\ a = [v \in BOOLEAN |-> args.a]
    /\ b = [v \in BOOLEAN |-> args.b]
    /\ cs = [v \in BOOLEAN |-> <<>>]
    /\ x = [v \in BOOLEAN |-> args.x0]
    /\ xs = [v \in BOOLEAN |-> <<args.x0>>]
    /\ ret = [v \in BOOLEAN |-> NoRet]
    /\ out = [v \in BOOLEAN |-> <<>>]
    /\ nf = [v \in BOOLEAN |-> 0]
    /\ br = [v \in BOOLEAN |-> <<>>]

----------------------------------------------------------------------------
(* bisect *)

PreconditionViolated_Strict(f, lo, hi) == RLt(Zero, RMul(Apply(f, lo), Apply(f, hi)))

PreconditionViolated(f, lo, hi) == RLe(Zero, RMul(Apply(f, lo), Apply(f, hi)))

Midpoint_Quarter(lo, hi) == RAdd(lo, RHalf(RHalf(RSub(hi, lo))))

Midpoint(lo, hi) == RHalf(RAdd(lo, hi))

BisectStop_WidthOnly(f, lo, hi, c, eps) == RLt(RHalf(RSub(hi, lo)), eps)

BisectStop(f, lo, hi, c, eps) ==
    \/ RLt(RAbs(Apply(f, c)), eps)
    \/ RLt(RHalf(RSub(hi, lo)), eps)

ReplacesB_Swapped(f, lo, c) == RLt(Zero, RMul(Apply(f, c), Apply(f, lo)))

ReplacesB(f, lo, c) == RLt(RMul(Apply(f, c), Apply(f, lo)), Zero)

Converged_ReturnsFirst(verbose, v, trace, k) ==
    IF verbose THEN [ret |-> Trace(trace), out |-> <<Message(v, k)>>]
    ELSE [ret |-> Scalar(trace[1]), out |-> <<>>]

Converged(verbose, v, trace, k) ==
    IF verbose THEN [ret |-> Trace(trace), out |-> <<Message(v, k)>>]
    ELSE [ret |-> Scalar(v), out |-> <<>>]

BisectEnter(v) ==
    /\ args.solver = "bisect"
    /\ pc[v] = "entry"
    /\ nf' = [nf EXCEPT ![v] = @ + 2]
    /\ pc' = [pc EXCEPT ![v] = IF PreconditionViolated(args.f, a[v], b[v])
                               THEN "precondition_error" ELSE "loop"]
    /\ UNCHANGED <<args, i, a, b, cs, x, xs, ret, out, br>>

BisectStep(v) ==
    /\ args.solver = "bisect"
    /\ pc[v] = "loop"
    /\ i[v] < args.N
    /\ LET c == Midpoint(a[v], b[v])
       IN  /\ cs' = [cs EXCEPT ![v] = Append(@, c)]
           /\ br' = [br EXCEPT ![v] = Append(@, <<a[v], b[v]>>)]
           /\ IF BisectStop(args.f, a[v], b[v], c, args.eps)
              THEN LET r == Converged(v, c, cs'[v], i[v] + 1)
                   IN  /\ ret' = [ret EXCEPT ![v] = r.ret]
                       /\ out' = [out EXCEPT ![v] = @ \o r.out]
                       /\ pc' = [pc EXCEPT ![v] = "returned"]
                       /\ nf' = [nf EXCEPT ![v] = @ + 1]
                       /\ UNCHANGED <<i, a, b>>
              ELSE /\ IF ReplacesB(args.f, a[v], c)
                      THEN b' = [b EXCEPT ![v] = c] /\ UNCHANGED a
                      ELSE a' = [a EXCEPT ![v] = c] /\ UNCHANGED b
                   /\ i' = [i EXCEPT ![v] = @ + 1]
                   /\ nf' = [nf EXCEPT ![v] = @ + 3]
                   /\ UNCHANGED <<ret, out, pc>>
    /\ UNCHANGED <<args, x, xs>>

Exhausted(v) ==
    /\ pc[v] = "loop"
    /\ i[v] >= args.N
    /\ pc' = [pc EXCEPT ![v] = "exhausted"]
    /\ UNCHANGED <<args, i, a, b, cs, x, xs, ret, out, nf, br>>

BisectExhaust(v) == args.solver = "bisect" /\ Exhausted(v)

----------------------------------------------------------------------------
(* iterate *)

IterateStop(p, q, eps) == RLt(RAbs(RSub(q, p)), eps)

IterateResult_Previous(p, q) == p

IterateResult(p, q) == q

IterateStep(v) ==
    /\ args.solver = "iterate"
    /\ pc[v] = "loop"
    /\ i[v] < args.N
    /\ LET x_ == Apply(args.f, x[v])
       IN  /\ nf' = [nf EXCEPT ![v] = @ + 1]
           /\ IF IterateStop(x[v], x_, args.eps)
              THEN /\ ret' = [ret EXCEPT ![v] = Scalar(IterateResult(x[v], x_))]
                   /\ pc' = [pc EXCEPT ![v] = "returned"]
                   /\ UNCHANGED <<i, x>>
              ELSE /\ x' = [x EXCEPT ![v] = x_]
                   /\ i' = [i EXCEPT ![v] = @ + 1]
                   /\ UNCHANGED <<ret, pc>>
    /\ UNCHANGED <<args, a, b, cs, xs, out, br>>

IterateExhaust(v) == args.solver = "iterate" /\ Exhausted(v)

----------------------------------------------------------------------------
(* newton *)

ZeroDerivative_NearZero(dfx) == RLt(RAbs(dfx), R(1))

ZeroDerivative(dfx) == dfx = Zero

NewtonNext(p, fx, dfx) == RSub(p, RDiv(fx, dfx))

NewtonStop(s, eps) == RLt(RAbs(RSub(s[Len(s)], s[Len(s) - 1])), eps)

NewtonStep(v) ==
    /\ args.solver = "newton"
    /\ pc[v] = "loop"
    /\ i[v] < args.N
    /\ LET fx == Apply(args.f, Last(xs[v]))
           dfx == Apply(args.df, Last(xs[v]))
       IN  /\ nf' = [nf EXCEPT ![v] = @ + 1]
           /\ IF ZeroDerivative(dfx)
              THEN /\ pc' = [pc EXCEPT ![v] = "zero_derivative_error"]
                   /\ UNCHANGED <<i, xs, ret, out>>
              ELSE /\ xs' = [xs EXCEPT ![v] = Append(@, NewtonNext(Last(@), fx, dfx))]
                   /\ IF NewtonStop(xs'[v], args.eps)
                      THEN LET r == Converged(v, Last(xs'[v]), xs'[v], i[v] + 1)
                           IN  /\ ret' = [ret EXCEPT ![v] = r.ret]
                               /\ out' = [out EXCEPT ![v] = @ \o r.out]
                               /\ pc' = [pc EXCEPT ![v] = "returned"]
                               /\ UNCHANGED i
                      ELSE /\ i' = [i EXCEPT ![v] = @ + 1]
                           /\ UNCHANGED <<ret, out, pc>>
    /\ UNCHANGED <<args, a, b, cs, x, br>>

NewtonExhaust(v) == args.solver = "newton" /\ Exhausted(v)

----------------------------------------------------------------------------
Next ==
    \E v \in BOOLEAN :
        \/ BisectEnter(v)
        \/ BisectStep(v)
        \/ BisectExhaust(v)
        \/ IterateStep(v)
        \/ IterateExhaust(v)
        \/ NewtonStep(v)
        \/ NewtonExhaust(v)

Spec == Init /\ [][Next]_vars

Terminal == {"returned", "precondition_error", "zero_derivative_error", "exhausted"}

TypeOK ==
    /\ args \in Args
    /\ \A v \in BOOLEAN : pc[v] \in Terminal \cup {"absent", "entry", "loop"}
    /\ \A v \in BOOLEAN : i[v] \in 0 .. args.N

----------------------------------------------------------------------------
(* Vocabulary of the properties. *)

Active == Calls(args.solver)
Sign(p) == IF p[1] > 0 THEN 1 ELSE IF p[1] < 0 THEN -1 ELSE 0
F(p) == Apply(args.f, p)
OppositeSigns(lo, hi) == Sign(F(lo)) * Sign(F(hi)) = -1
Distance(p, q) == RAbs(RSub(p, q))
Returned(v) == IF ret[v].kind = "trace" THEN Last(ret[v].val) ELSE ret[v].val
AllTerminated == \A v \in Active : pc[v] \in Terminal

----------------------------------------------------------------------------
(* C1: whenever bisect returns c, c is the midpoint of the bracket held   *)
(* at the returning step, and |f(c)| < eps or half the distance between   *)
(* low and high is below eps.  Violated: the source tests the signed      *)
(* (b - a) / 2, which is negative whenever a > b.                         *)
C1_ReturnMeetsTolerance ==
    \A v \in Active :
        (args.solver = "bisect" /\ pc[v] = "returned") =>
            LET lo == Last(br[v])[1]
                hi == Last(br[v])[2]
                c == Returned(v)
            IN  /\ c = RHalf(RAdd(lo, hi))
                /\ \/ RLt(RAbs(F(c)), args.eps)
                   \/ RLt(RHalf(Distance(hi, lo)), args.eps)

(* The part of C1 the source does meet: with a < b at entry. *)
C1_HoldsWhenOrdered ==
    RLt(args.a, args.b) => C1_ReturnMeetsTolerance

----------------------------------------------------------------------------
(* C2: bisect called with f(a) * f(b) >= 0 (same sign, or an endpoint     *)
(* value of zero) fails with the precondition error at once: no midpoint  *)
(* is computed or evaluated, nothing is printed, nothing is returned,     *)
(* whatever eps, N and verbose are.                                       *)
NoSignChange == Sign(F(args.a)) * Sign(F(args.b)) >= 0

C2_PreconditionFailsImmediately ==
    \A v \in Active :
        (args.solver = "bisect" /\ pc[v] # "entry") =>
            /\ NoSignChange <=> pc[v] = "precondition_error"
            /\ NoSignChange =>
                /\ cs[v] = <<>> /\ br[v] = <<>> /\ i[v] = 0
                /\ nf[v] = 2
                /\ out[v] = <<>>
                /\ ret[v] = NoRet

C2_Witness ==
    /\ args.solver = "bisect" /\ args.N = 0
    /\ F(args.a) = Zero /\ F(args.b) # Zero
    /\ pc[TRUE] = "precondition_error" /\ pc[FALSE] = "precondition_error"

----------------------------------------------------------------------------
(* The stopping conditions as the specification words them, evaluated on  *)
(* the steps an activation has performed.                                 *)

RECURSIVE Orbit(_, _, _)
Orbit(f, p, k) == IF k = 0 THEN p ELSE Apply(f, Orbit(f, p, k - 1))

StepsDone(v) == IF args.solver = "bisect" THEN Len(cs[v]) ELSE nf[v]

(* bisect: |f(c)| < eps, or half the bracket width below eps. *)
HalfWidth(lo, hi) == RHalf(Distance(hi, lo))
BisectMeetsEps(v, k) ==
    \/ RLt(RAbs(F(cs[v][k])), args.eps)
    \/ RLt(HalfWidth(br[v][k][1], br[v][k][2]), args.eps)

(* iterate, newton: the last two iterates differ by less than eps. *)
IterateMeetsEps(k) ==
    RLt(Distance(Orbit(args.f, args.x0, k), Orbit(args.f, args.x0, k - 1)), args.eps)
NewtonMeetsEps(v, k) ==
    k + 1 <= Len(xs[v]) /\ RLt(Distance(xs[v][k + 1], xs[v][k]), args.eps)

MeetsEps(v, k) ==
    CASE args.solver = "bisect" -> BisectMeetsEps(v, k)
      [] args.solver = "iterate" -> IterateMeetsEps(k)
      [] args.solver = "newton" -> NewtonMeetsEps(v, k)

DerivativeZeroAt(v, k) ==
    args.solver = "newton" /\ k <= Len(xs[v]) /\ Apply(args.df, xs[v][k]) = Zero

BudgetSpent(v) ==
    /\ StepsDone(v) = args.N
    /\ \A k \in 1 .. args.N : ~MeetsEps(v, k) /\ ~DerivativeZeroAt(v, k)

----------------------------------------------------------------------------
(* C3: each solver ends after at most N loop steps, and ends with the     *)
(* convergence-exhausted error exactly when none of the steps 1..N meets  *)
(* the solver's stopping condition (the precondition having held, and no  *)
(* step having met a zero derivative), and then only after all N steps.   *)
(* Violated by bisect with a > b, which returns at a step that meets      *)
(* neither |f(c)| < eps nor half-width < eps (see C1).                    *)
C3_ExhaustedExactlyWhenNoStepStops ==
    \A v \in Active :
        /\ StepsDone(v) <= args.N
        /\ pc[v] \in Terminal =>
              (pc[v] = "exhausted" <=>
                  (BudgetSpent(v) /\ ~(args.solver = "bisect" /\ NoSignChange)))

(* What the source does guarantee: the same with bisect's bounds ordered. *)
C3_Ordered ==
    (args.solver = "bisect" => RLt(args.a, args.b)) => C3_ExhaustedExactlyWhenNoStepStops

----------------------------------------------------------------------------
(* C4: in newton, at the first step taken at which df(last iterate) is    *)
(* zero the call fails with the zero-derivative error before any new      *)
(* iterate is appended and returns nothing, also in verbose mode; a step  *)
(* follows another only if the derivative was nonzero; and when df is the *)
(* constant-zero function the first step fails so, whatever x0, f and eps *)
(* are.                                                                   *)
C4_ZeroDerivative ==
    \A v \in Active :
        args.solver = "newton" =>
            /\ \A k \in 1 .. StepsDone(v) :
                  DerivativeZeroAt(v, k) =>
                      /\ k = StepsDone(v)
                      /\ pc[v] = "zero_derivative_error"
                      /\ Len(xs[v]) = k
                      /\ ret[v] = NoRet /\ out[v] = <<>>
            /\ pc[v] = "zero_derivative_error" =>
                  StepsDone(v) >= 1 /\ DerivativeZeroAt(v, StepsDone(v))
            /\ (args.df = "zero" /\ args.N >= 1 /\ pc[v] \in Terminal) =>
                  pc[v] = "zero_derivative_error" /\ StepsDone(v) = 1

(* A derivative that is nonzero at x0 and zero at a later iterate, in     *)
(* verbose mode: the ramp 1 + max(x, 0) steps from x0 > 0 to -1, where    *)
(* its derivative is 0.                                                   *)
C4_Witness ==
    /\ args.solver = "newton" /\ args.df = "step"
    /\ pc[TRUE] = "zero_derivative_error"
    /\ StepsDone(TRUE) = 2 /\ Len(xs[TRUE]) = 2
    /\ ret[TRUE] = NoRet

----------------------------------------------------------------------------
(* C5: bisect and newton run on the same arguments with verbose = false   *)
(* and verbose = true end the same way at the same step, the last element *)
(* of the verbose sequence is the scalar the other call returns, and the  *)
(* bounds and iterates of the two calls agree step by step.               *)
IsPrefix(s, t) == Len(s) <= Len(t) /\ \A k \in 1 .. Len(s) : s[k] = t[k]
Agree(s, t) == IsPrefix(s, t) \/ IsPrefix(t, s)

C5_VerboseAgrees ==
    args.solver \in {"bisect", "newton"} =>
        /\ Agree(cs[TRUE], cs[FALSE])
        /\ Agree(br[TRUE], br[FALSE])
        /\ Agree(xs[TRUE], xs[FALSE])
        /\ StepsDone(TRUE) = StepsDone(FALSE) =>
              a[TRUE] = a[FALSE] /\ b[TRUE] = b[FALSE]
        /\ (pc[TRUE] \in Terminal /\ pc[FALSE] \in Terminal) =>
              /\ pc[TRUE] = pc[FALSE]
              /\ StepsDone(TRUE) = StepsDone(FALSE)
              /\ pc[TRUE] = "returned" =>
                    /\ ret[TRUE].kind = "trace" /\ ret[FALSE].kind = "scalar"
                    /\ Last(ret[TRUE].val) = ret[FALSE].val

C5_Witness ==
    /\ args.solver = "bisect"
    /\ pc[TRUE] = "returned" /\ pc[FALSE] = "returned"
    /\ Len(ret[TRUE].val) >= 2

----------------------------------------------------------------------------
(* C6: in verbose mode the k of "Converged to {value} after {k}           *)
(* iterations." is the 1-indexed number of the step at which the stopping *)
(* condition first held, 1 <= k <= N; the value is the last element of    *)
(* the returned sequence; the sequence holds k midpoints for bisect, and  *)
(* x0 followed by k iterates for newton.  Violated by bisect with a > b,  *)
(* which reports k = 1 for a step that does not meet eps (see C1).        *)
C6_ReportedStep ==
    (args.solver \in {"bisect", "newton"} /\ pc[TRUE] = "returned") =>
        /\ Len(out[TRUE]) = 1
        /\ LET k == out[TRUE][1].k
               seq == ret[TRUE].val
           IN  /\ 1 <= k /\ k <= args.N
               /\ MeetsEps(TRUE, k)
               /\ \A j \in 1 .. k - 1 : ~MeetsEps(TRUE, j)
               /\ out[TRUE][1].value = Last(seq)
               /\ args.solver = "bisect" => Len(seq) = k /\ seq = cs[TRUE]
               /\ args.solver = "newton" => Len(seq) = k + 1 /\ seq[1] = args.x0

(* What the source does guarantee: the same with bisect's bounds ordered. *)
C6_Ordered ==
    (args.solver = "bisect" => RLt(args.a, args.b)) => C6_ReportedStep

----------------------------------------------------------------------------
(* The brackets of a bisect activation: those its steps started from and, *)
(* after a rejected step, the one it holds now.                           *)

InLoop(v) == args.solver = "bisect" /\ pc[v] \in {"loop", "returned", "exhausted"}
Rejected(v) == IF pc[v] = "returned" THEN Len(br[v]) - 1 ELSE Len(br[v])
BracketAfter(v, k) == IF k < Len(br[v]) THEN br[v][k + 1] ELSE <<a[v], b[v]>>
PositiveEps == RLt(Zero, args.eps)

BracketInvariant(v) ==
    /\ OppositeSigns(a[v], b[v])
    /\ \A k \in 1 .. Len(br[v]) : OppositeSigns(br[v][k][1], br[v][k][2])
    /\ \A k \in 1 .. Rejected(v) :
          LET old == br[v][k]
              new == BracketAfter(v, k)
              c == cs[v][k]
          IN  \/ /\ new = <<c, old[2]>>
                 /\ Sign(F(old[1])) = Sign(F(c))
              \/ /\ new = <<old[1], c>>
                 /\ Sign(F(old[2])) = Sign(F(c))

(* C7 as stated: for every f, eps and N the bounds of the bisect loop     *)
(* keep f(low) * f(high) < 0, and each rejected step replaces exactly the *)
(* bound whose value has the sign of f(midpoint).  Violated for eps <= 0: *)
(* a midpoint with f(c) = 0 is rejected and becomes the bound a.          *)
C7_BracketAlways ==
    \A v \in Active : InLoop(v) => BracketInvariant(v)

(* C7 amended: the same for every eps > 0. *)
C7_Bracket ==
    \A v \in Active : (InLoop(v) /\ PositiveEps) => BracketInvariant(v)

(* Both bounds have been replaced. *)
C7_Witness ==
    /\ InLoop(FALSE) /\ PositiveEps
    /\ Rejected(FALSE) >= 2
    /\ a[FALSE] # args.a /\ b[FALSE] # args.b

----------------------------------------------------------------------------
StopsAtExactRoot(v) ==
    /\ \A k \in 1 .. Len(cs[v]) :
          F(cs[v][k]) = Zero =>
              /\ k = Len(cs[v])
              /\ pc[v] = "returned"
              /\ Returned(v) = cs[v][k]
    /\ F(a[v]) # Zero /\ F(b[v]) # Zero

(* C8 as stated: whenever a midpoint c has f(c) = 0 exactly, bisect stops *)
(* at that step and returns c, so no bound is ever replaced by a point    *)
(* where f is zero.  Violated for eps <= 0, where |f(c)| < eps is false.  *)
C8_ExactRootAlways ==
    \A v \in Active : InLoop(v) => StopsAtExactRoot(v)

(* C8 amended: the same when eps > 0. *)
C8_ExactRoot ==
    \A v \in Active : (InLoop(v) /\ PositiveEps) => StopsAtExactRoot(v)

(* An exact root met at the second step, the half-width still above eps. *)
C8_Witness ==
    /\ InLoop(TRUE) /\ PositiveEps
    /\ pc[TRUE] = "returned" /\ Len(cs[TRUE]) = 2
    /\ F(Returned(TRUE)) = Zero
    /\ RLe(args.eps, HalfWidth(br[TRUE][2][1], br[TRUE][2][2]))

----------------------------------------------------------------------------
(* The rational roots of the functions given to bisect; x^2 - 2 and       *)
(* x^2 + 1 have none.                                                     *)
Roots(fn) ==
    CASE fn = "lin" -> {R(1)}
      [] fn = "zig" -> {R(-1), Zero, R(1)}
      [] OTHER -> {}

Between(r, lo, hi) == (RLe(lo, r) /\ RLe(r, hi)) \/ (RLe(hi, r) /\ RLe(r, lo))
RootsInside == {r \in Roots(args.f) : Between(r, args.a, args.b)}
Width0 == Distance(args.b, args.a)

Halves(v) ==
    /\ \A k \in 1 .. Len(br[v]) :
          Distance(br[v][k][2], br[v][k][1]) = RDiv(Width0, R(2 ^ (k - 1)))
    /\ Distance(b[v], a[v]) = RDiv(Width0, R(2 ^ Rejected(v)))

Tracks(v, r) ==
    /\ \A k \in 1 .. Len(cs[v]) :
          /\ Between(r, br[v][k][1], br[v][k][2])
          /\ RLe(Distance(cs[v][k], r), RDiv(Width0, R(2 ^ k)))
    /\ Between(r, a[v], b[v])

(* C9 as stated: for every f with a root r inside [a, b] and              *)
(* f(a) * f(b) < 0, every rejected step halves the bracket width, r stays *)
(* inside the bracket, and the midpoint of step k is within               *)
(* |b - a| / 2^k of r.  Violated when f has several roots in [a, b]:      *)
(* the half that is kept need not be the one holding r.                   *)
C9_EveryRootTracked ==
    \A v \in Active :
        InLoop(v) => Halves(v) /\ \A r \in RootsInside : Tracks(v, r)

(* C9 amended: every rejected step halves the bracket width; and when    *)
(* eps > 0 and r is the only root of f in [a, b], r stays inside the      *)
(* bracket and the midpoint of step k is within |b - a| / 2^k of r.       *)
C9_OnlyRootTracked ==
    \A v \in Active :
        InLoop(v) =>
            /\ Halves(v)
            /\ PositiveEps =>
                  \A r \in RootsInside : RootsInside = {r} => Tracks(v, r)

C9_Witness ==
    /\ InLoop(FALSE) /\ PositiveEps
    /\ Cardinality(RootsInside) = 1
    /\ Rejected(FALSE) >= 2
    /\ \A r \in RootsInside : r \notin {a[FALSE], b[FALSE]}

----------------------------------------------------------------------------
(* C10: iterate returns x_k of the orbit x_0 = x0, x_j = f(x_(j-1)) for   *)
(* the smallest k in 1..N with |x_k - x_(k-1)| < eps: the new value, not  *)
(* the previous one, after exactly k applications of f and no further     *)
(* step; x0 needs no precondition, and from a fixed point with eps > 0    *)
(* the first step returns f(x0).                                          *)
FirstToMeet(k) == IterateMeetsEps(k) /\ \A j \in 1 .. k - 1 : ~IterateMeetsEps(j)

C10_IterateReturnsFirst ==
    args.solver = "iterate" =>
        LET v == FALSE
            n == nf[v]
        IN  /\ n <= args.N
            /\ pc[v] = "loop" =>
                  /\ x[v] = Orbit(args.f, args.x0, n)
                  /\ \A j \in 1 .. n : ~IterateMeetsEps(j)
            /\ pc[v] = "returned" =>
                  /\ n >= 1 /\ FirstToMeet(n)
                  /\ ret[v] = Scalar(Orbit(args.f, args.x0, n))
            /\ pc[v] = "exhausted" =>
                  \A j \in 1 .. args.N : ~IterateMeetsEps(j)
            /\ (Apply(args.f, args.x0) = args.x0 /\ PositiveEps /\ args.N >= 1
                   /\ pc[v] \in Terminal) =>
                  /\ pc[v] = "returned" /\ n = 1
                  /\ ret[v] = Scalar(Apply(args.f, args.x0))

(* Returned at the third step, the value differing from the previous one. *)
C10_Witness ==
    /\ args.solver = "iterate"
    /\ pc[FALSE] = "returned" /\ nf[FALSE] = 3
    /\ ret[FALSE].val # x[FALSE]

====
